---- MODULE Spec2Model ----
(***************************************************************************)
(* Model of the google-geoApi proxy: the Lambda handler                    *)
(* (getnearbylocation/main.go) and the three outbound operations of        *)
(* package geomap (GetGeocode, FindPlace, PlaceNearby).                    *)
(*                                                                         *)
(* The upstream service and the HTTP transport are the environment: the    *)
(* outcome of client.Do (a transport error, or a response with a status    *)
(* code and a body stream) is chosen nondeterministically.  JSON texts are *)
(* represented by their parse trees; a body that is not JSON at all is the *)
(* tree [t |-> "bad"].                                                     *)
(***************************************************************************)
EXTENDS Integers, Sequences, FiniteSets, TLC

(***************************************************************************)
(* Bounds and program constants                                            *)
(***************************************************************************)
\* number of invocations the host runtime may run interleaved (SpecConc)
NumInv == 2

\* net/http: http.StatusOK
StatusOK == 200

NoErr == "nil"
ErrStatusNotOK == "Status not OK"
ErrTransport == "dial tcp: connection refused"
ErrBodyRead == "unexpected EOF"
ErrSyntax == "invalid character looking for beginning of value"
ErrType == "json: cannot unmarshal value into Go struct field"
ErrNewRequest == "net/http: invalid method or URL"

APIKey == "API KEY HERE"

GeocodeURL == "https://maps.googleapis.com/maps/api/geocode/json"
FindPlaceURL == "https://maps.googleapis.com/maps/api/place/findplacefromtext/json"
NearbyURL == "https://maps.googleapis.com/maps/api/place/nearbysearch/json"

(***************************************************************************)
(* Go maps with string keys: a function whose domain is the set of keys.   *)
(***************************************************************************)
EmptyMap == [k \in {} |-> ""]

\* m[k] on a Go map: the zero value "" when the key is absent
MapGet(m, k) == IF k \in DOMAIN m THEN m[k] ELSE ""

\* m[k] = v on a Go map
MapPut(m, k, v) == [x \in DOMAIN m \cup {k} |-> IF x = k THEN v ELSE m[x]]

(***************************************************************************)
(* JSON trees.  Numbers are kept in tenths, so 45 is 4.5 and 40 is 4.      *)
(***************************************************************************)
JStr(s) == [t |-> "str", v |-> s]
JNum(n) == [t |-> "num", v |-> n]
JArr(a) == [t |-> "arr", v |-> a]
JObj(o) == [t |-> "obj", v |-> o]
JNull == [t |-> "null"]
JBad == [t |-> "bad"]

\* the upstream bodies the environment may serve, by name
PayloadIds == {"nearbyOK", "zeroResults", "denied", "placeOK", "geocodeOK",
               "nullDoc", "html", "statusNumber"}

Payload(id) ==
  CASE id = "nearbyOK" ->
         JObj([html_attributions |-> JArr(<<>>),
               results |-> JArr(<<JObj([name |-> JStr("Cafe"),
                                        rating |-> JNum(45),
                                        price_level |-> JNum(20)])>>),
               status |-> JStr("OK")])
    [] id = "zeroResults" ->
         JObj([results |-> JArr(<<>>), status |-> JStr("ZERO_RESULTS")])
    [] id = "denied" ->
         JObj([error_message |-> JStr("The provided API key is invalid."),
               results |-> JArr(<<>>),
               status |-> JStr("REQUEST_DENIED")])
    [] id = "placeOK" ->
         JObj([candidates |-> JArr(<<JObj([formatted_address |-> JStr("Jl. Sudirman 1"),
                                           name |-> JStr("Cafe"),
                                           rating |-> JNum(45)])>>),
               status |-> JStr("OK")])
    [] id = "geocodeOK" ->
         JObj([results |-> JArr(<<JObj([formatted_address |-> JStr("Jl. Sudirman 1"),
                                        place_id |-> JStr("ChIJ1")])>>),
               status |-> JStr("OK")])
    [] id = "nullDoc" -> JNull
    [] id = "html" -> JBad
    [] id = "statusNumber" ->
         JObj([results |-> JNull, status |-> JNum(70)])

(***************************************************************************)
(* encoding/json, decoding.  Every decoder returns [ok, val]: val is what  *)
(* the destination holds afterwards (the zero value where nothing was      *)
(* stored), ok is FALSE when the JSON value does not fit the Go type.      *)
(* A key the object lacks leaves the freshly declared destination at its   *)
(* zero value, exactly as a JSON null does.                                *)
(***************************************************************************)
Field(o, k) == IF k \in DOMAIN o THEN o[k] ELSE JNull

NilSlice == [isNil |-> TRUE, elems |-> <<>>]

\* Go string <- JSON
StrOf(j) == [ok |-> j.t \in {"str", "null"},
             val |-> IF j.t = "str" THEN j.v ELSE ""]

\* Go int <- JSON: a number with a fraction does not fit
IntOf(j) == [ok |-> j.t = "null" \/ (j.t = "num" /\ j.v % 10 = 0),
             val |-> IF j.t = "num" /\ j.v % 10 = 0 THEN j.v \div 10 ELSE 0]

\* Go float64 <- JSON (kept in tenths)
FloatOf(j) == [ok |-> j.t \in {"num", "null"},
               val |-> IF j.t = "num" THEN j.v ELSE 0]

\* interface{} <- JSON: anything fits
AnyOf(j) == [ok |-> TRUE, val |-> j]

\* Go slice <- JSON array; null gives the nil slice
SliceOf(j, ElemOf(_)) ==
  IF j.t = "arr"
  THEN [ok |-> \A i \in 1..Len(j.v) : ElemOf(j.v[i]).ok,
        val |-> [isNil |-> FALSE,
                 elems |-> IF Len(j.v) = 0 THEN <<>>
                           ELSE [i \in 1..Len(j.v) |-> ElemOf(j.v[i]).val]]]
  ELSE [ok |-> j.t = "null", val |-> NilSlice]

(* The result entries carry one field of each Go type that occurs in them  *)
(* (string, float64, int, int with omitempty); the remaining fields of the *)
(* source structs decode and encode by the same rules.                     *)
ZeroNearbyEntry == [Name |-> "", Rating |-> 0, PriceLevel |-> 0]
ZeroCandidate == [FormattedAddress |-> "", Name |-> "", Rating |-> 0]
ZeroGeocodeEntry == [FormattedAddress |-> "", PlaceID |-> ""]

NearbyEntryOf(j) ==
  IF j.t = "obj"
  THEN LET n == StrOf(Field(j.v, "name"))
           r == FloatOf(Field(j.v, "rating"))
           l == IntOf(Field(j.v, "price_level"))
       IN [ok |-> n.ok /\ r.ok /\ l.ok,
           val |-> [Name |-> n.val, Rating |-> r.val, PriceLevel |-> l.val]]
  ELSE [ok |-> j.t = "null", val |-> ZeroNearbyEntry]

CandidateOf(j) ==
  IF j.t = "obj"
  THEN LET a == StrOf(Field(j.v, "formatted_address"))
           n == StrOf(Field(j.v, "name"))
           r == IntOf(Field(j.v, "rating"))
       IN [ok |-> a.ok /\ n.ok /\ r.ok,
           val |-> [FormattedAddress |-> a.val, Name |-> n.val, Rating |-> r.val]]
  ELSE [ok |-> j.t = "null", val |-> ZeroCandidate]

GeocodeEntryOf(j) ==
  IF j.t = "obj"
  THEN LET a == StrOf(Field(j.v, "formatted_address"))
           i == StrOf(Field(j.v, "place_id"))
       IN [ok |-> a.ok /\ i.ok,
           val |-> [FormattedAddress |-> a.val, PlaceID |-> i.val]]
  ELSE [ok |-> j.t = "null", val |-> ZeroGeocodeEntry]

GoogleGeocodeResponse == [Results |-> NilSlice, Status |-> ""]
GooglePlaceSearchResponse == [Candidates |-> NilSlice, Status |-> ""]
GoogleNearbySearchResponse ==
  [HTMLAttributions |-> NilSlice, Results |-> NilSlice, Status |-> ""]

\* json.Unmarshal(contents, &googleGeocodeResponse): [err, val]
UnmarshalGeocode(j) ==
  IF j.t = "bad" THEN [err |-> ErrSyntax, val |-> GoogleGeocodeResponse]
  ELSE IF j.t = "null" THEN [err |-> NoErr, val |-> GoogleGeocodeResponse]
  ELSE IF j.t # "obj" THEN [err |-> ErrType, val |-> GoogleGeocodeResponse]
  ELSE LET r == SliceOf(Field(j.v, "results"), GeocodeEntryOf)
           s == StrOf(Field(j.v, "status"))
       IN [err |-> IF r.ok /\ s.ok THEN NoErr ELSE ErrType,
           val |-> [Results |-> r.val, Status |-> s.val]]

\* json.Unmarshal(contents, &googleFindPlaceResponse): [err, val]
UnmarshalPlaceSearch(j) ==
  IF j.t = "bad" THEN [err |-> ErrSyntax, val |-> GooglePlaceSearchResponse]
  ELSE IF j.t = "null" THEN [err |-> NoErr, val |-> GooglePlaceSearchResponse]
  ELSE IF j.t # "obj" THEN [err |-> ErrType, val |-> GooglePlaceSearchResponse]
  ELSE LET c == SliceOf(Field(j.v, "candidates"), CandidateOf)
           s == StrOf(Field(j.v, "status"))
       IN [err |-> IF c.ok /\ s.ok THEN NoErr ELSE ErrType,
           val |-> [Candidates |-> c.val, Status |-> s.val]]

\* variant: the Status field is not bound to the "status" member
UnmarshalNearby_NoStatus(j) ==
  IF j.t = "bad" THEN [err |-> ErrSyntax, val |-> GoogleNearbySearchResponse]
  ELSE IF j.t = "null" THEN [err |-> NoErr, val |-> GoogleNearbySearchResponse]
  ELSE IF j.t # "obj" THEN [err |-> ErrType, val |-> GoogleNearbySearchResponse]
  ELSE LET h == SliceOf(Field(j.v, "html_attributions"), AnyOf)
           r == SliceOf(Field(j.v, "results"), NearbyEntryOf)
       IN [err |-> IF h.ok /\ r.ok THEN NoErr ELSE ErrType,
           val |-> [HTMLAttributions |-> h.val, Results |-> r.val,
                    Status |-> ""]]

\* json.Unmarshal(contents, &googleNearbySearchResponse): [err, val]
UnmarshalNearby(j) ==
  IF j.t = "bad" THEN [err |-> ErrSyntax, val |-> GoogleNearbySearchResponse]
  ELSE IF j.t = "null" THEN [err |-> NoErr, val |-> GoogleNearbySearchResponse]
  ELSE IF j.t # "obj" THEN [err |-> ErrType, val |-> GoogleNearbySearchResponse]
  ELSE LET h == SliceOf(Field(j.v, "html_attributions"), AnyOf)
           r == SliceOf(Field(j.v, "results"), NearbyEntryOf)
           s == StrOf(Field(j.v, "status"))
       IN [err |-> IF h.ok /\ r.ok /\ s.ok THEN NoErr ELSE ErrType,
           val |-> [HTMLAttributions |-> h.val, Results |-> r.val,
                    Status |-> s.val]]

(***************************************************************************)
(* encoding/json, encoding: the JSON text as its sequence of tokens.       *)
(***************************************************************************)
RECURSIVE Join(_, _)
\* the elements' token sequences, separated by commas
Join(parts, i) ==
  IF i > Len(parts) THEN <<>>
  ELSE (IF i = 1 THEN <<>> ELSE <<",">>) \o parts[i] \o Join(parts, i + 1)

MarshalString(s) == <<"\"", s, "\"">>

MarshalInt(n) == <<ToString(n)>>

\* a float64 kept in tenths: 45 prints 4.5, 40 prints 4
MarshalFloat(n) ==
  IF n % 10 = 0 THEN <<ToString(n \div 10)>>
  ELSE <<ToString(n \div 10), ".", ToString(n % 10)>>

\* an interface{} holding a decoded JSON value
MarshalAny(j) ==
  CASE j.t = "str" -> MarshalString(j.v)
    [] j.t = "num" -> MarshalFloat(j.v)
    [] OTHER -> <<"null">>

\* a nil slice encodes as null, an empty one as []
MarshalSlice(s, MarshalElem(_)) ==
  IF s.isNil THEN <<"null">>
  ELSE <<"[">> \o
       Join([i \in 1..Len(s.elems) |-> MarshalElem(s.elems[i])], 1) \o
       <<"]">>

MarshalNearbyEntry(e) ==
  <<"{", "\"name\"", ":">> \o MarshalString(e.Name) \o
  (IF e.PriceLevel = 0 THEN <<>>
   ELSE <<",", "\"price_level\"", ":">> \o MarshalInt(e.PriceLevel)) \o
  <<",", "\"rating\"", ":">> \o MarshalFloat(e.Rating) \o
  <<"}">>

\* json.Marshal(googleResp) for a GoogleNearbySearchResponse
MarshalNearby(v) ==
  <<"{", "\"html_attributions\"", ":">> \o MarshalSlice(v.HTMLAttributions, MarshalAny) \o
  <<",", "\"results\"", ":">> \o MarshalSlice(v.Results, MarshalNearbyEntry) \o
  <<",", "\"status\"", ":">> \o MarshalString(v.Status) \o
  <<"}">>

(***************************************************************************)
(* Program state                                                           *)
(***************************************************************************)
VARIABLES
  phase,     \* "init" until the package initializer has run, then "serving"
  client,    \* package variable geomap.client
  pc,        \* pc[p]: where invocation p stands
  entry,     \* entry[p]: the exported function the caller invoked
  inv,       \* inv[s]: the local variables held in stack frame s
  body,      \* body[p]: the body stream of the response p's call received
  calls,     \* calls[p]: how many times p has executed client.Do
  steps,     \* steps[p]: the steps p has taken, in order
  input,     \* input[p]: the request the runtime handed to Handler
  passed,    \* passed[p]: the mapping handed to the outbound operation
  upstream,  \* upstream[p]: what the transport answered to p's call
  output     \* output[p]: what the entry function returned to its caller

vars == <<phase, client, pc, entry, inv, body, calls, steps, input, passed,
          upstream, output>>

Procs == DOMAIN pc

NilClient == "nil"
HTTPClient == "&http.Client{}"

NoReq == [method |-> "", url |-> "", query |-> EmptyMap, RawQuery |-> {}]
NoResp == [status |-> 0, body |-> "", readFails |-> FALSE]
NoVal == [none |-> TRUE]
NoOutcome == [err |-> NoErr, status |-> 0, body |-> "", readFails |-> FALSE]
NoOutput == [returned |-> FALSE, StatusCode |-> 0, Body |-> <<>>,
             val |-> NoVal, err |-> NoErr]

ZeroFrame == [request |-> EmptyMap, params |-> EmptyMap, req |-> NoReq,
              resp |-> NoResp, deferred |-> FALSE, contents |-> "",
              val |-> NoVal, err |-> NoErr]

\* variant: the variables are package-level, one copy for all invocations
SharedFrame(p) == 1

\* every invocation runs on a stack frame of its own: the variables of
\* Handler and of the outbound operations are all locals
Frame(p) == p

\* Handler calls geomap.PlaceNearby; the other entries are the operation itself
Fn(p) == IF entry[p] = "Handler" THEN "PlaceNearby" ELSE entry[p]

Terminal == {"Succeeded", "Failed", "Returned"}

(***************************************************************************)
(* Inputs                                                                  *)
(***************************************************************************)
QueryKeys == {"location", "radius", "name", "language"}

QueryValues(k) ==
  CASE k = "location" -> {"-6.2,106.8"}
    [] k = "radius" -> {"500"}
    [] k = "name" -> {"", "coffee"}
    [] k = "language" -> {"id"}

AllQueryValues == UNION {QueryValues(k) : k \in QueryKeys}

\* request.QueryStringParameters: any subset of the keys may be present
Requests ==
  UNION {{f \in [D -> AllQueryValues] : \A k \in D : f[k] \in QueryValues(k)} :
         D \in SUBSET QueryKeys}

Statuses == {200, 404, 500}

TransportFailure ==
  [err |-> ErrTransport, status |-> 0, body |-> "", readFails |-> FALSE]

Answer(s, b, r) == [err |-> NoErr, status |-> s, body |-> b, readFails |-> r]

\* what client.Do can come back with
Outcomes ==
  {TransportFailure} \cup
  {Answer(s, b, r) : s \in Statuses, b \in PayloadIds, r \in BOOLEAN}

(***************************************************************************)
(* Package initializer (geomap init)                                       *)
(***************************************************************************)
init ==
  /\ phase = "init"
  /\ client' = HTTPClient
  /\ phase' = "serving"
  /\ UNCHANGED <<pc, entry, inv, body, calls, steps, input, passed, upstream,
                 output>>

(***************************************************************************)
(* Handler (getnearbylocation/main.go)                                     *)
(***************************************************************************)
\* variant: name is copied without the test for the empty string
GeoParams_AlwaysName(request) ==
  LET location == MapGet(request, "location")
      radius == MapGet(request, "radius")
      name == MapGet(request, "name")
      key == APIKey
  IN [location |-> location, radius |-> radius, key |-> key, name |-> name]

\* lines 25-41: the mapping built from the query string parameters
GeoParams(request) ==
  LET location == MapGet(request, "location")
      radius == MapGet(request, "radius")
      name == MapGet(request, "name")
      key == APIKey
      geoParams == [location |-> location, radius |-> radius, key |-> key]
  IN IF name # "" THEN MapPut(geoParams, "name", name) ELSE geoParams

\* lambda.Start(Handler): the runtime invokes Handler with a request
Handler_Receive(p, request) ==
  /\ phase = "serving"
  /\ pc[p] = "idle"
  /\ pc' = [pc EXCEPT ![p] = "Received"]
  /\ entry' = [entry EXCEPT ![p] = "Handler"]
  /\ input' = [input EXCEPT ![p] = request]
  /\ inv' = [inv EXCEPT ![Frame(p)] = [ZeroFrame EXCEPT !.request = request]]
  /\ steps' = [steps EXCEPT ![p] = Append(@, "Received")]
  /\ UNCHANGED <<phase, client, body, calls, passed, upstream, output>>

Handler_BuildParams(p) ==
  /\ pc[p] = "Received"
  /\ inv' = [inv EXCEPT ![Frame(p)].params = GeoParams(inv[Frame(p)].request)]
  /\ pc' = [pc EXCEPT ![p] = "Call"]
  /\ steps' = [steps EXCEPT ![p] = Append(@, "BuildParams")]
  /\ UNCHANGED <<phase, client, entry, body, calls, input, passed, upstream,
                 output>>

\* line 44: geomap.PlaceNearby(ctx, geoParams)
Handler_Dispatch(p) ==
  /\ pc[p] = "Call"
  /\ passed' = [passed EXCEPT ![p] = inv[Frame(p)].params]
  /\ pc' = [pc EXCEPT ![p] = "NewRequest"]
  /\ steps' = [steps EXCEPT ![p] = Append(@, "Dispatched")]
  /\ UNCHANGED <<phase, client, entry, inv, body, calls, input, upstream,
                 output>>

\* variant: the error is not handed on to the runtime
Handler_Fail_NilError(p) ==
  /\ pc[p] = "HandlerCheck"
  /\ inv[Frame(p)].err # NoErr
  /\ output' = [output EXCEPT ![p] =
                  [returned |-> TRUE, StatusCode |-> 400, Body |-> <<"Error">>,
                   val |-> NoVal, err |-> NoErr]]
  /\ pc' = [pc EXCEPT ![p] = "Failed"]
  /\ steps' = [steps EXCEPT ![p] = Append(@, "Failed")]
  /\ UNCHANGED <<phase, client, entry, inv, body, calls, input, passed,
                 upstream>>

\* lines 45-47
Handler_Fail(p) ==
  /\ pc[p] = "HandlerCheck"
  /\ inv[Frame(p)].err # NoErr
  /\ output' = [output EXCEPT ![p] =
                  [returned |-> TRUE, StatusCode |-> 400, Body |-> <<"Error">>,
                   val |-> NoVal, err |-> inv[Frame(p)].err]]
  /\ pc' = [pc EXCEPT ![p] = "Failed"]
  /\ steps' = [steps EXCEPT ![p] = Append(@, "Failed")]
  /\ UNCHANGED <<phase, client, entry, inv, body, calls, input, passed,
                 upstream>>

\* variant: the envelope is returned without its Body
Handler_Succeed_NoBody(p) ==
  /\ pc[p] = "HandlerCheck"
  /\ inv[Frame(p)].err = NoErr
  /\ output' = [output EXCEPT ![p] =
                  [returned |-> TRUE, StatusCode |-> 200, Body |-> <<>>,
                   val |-> NoVal, err |-> NoErr]]
  /\ pc' = [pc EXCEPT ![p] = "Succeeded"]
  /\ steps' = [steps EXCEPT ![p] = Append(@, "Succeeded")]
  /\ UNCHANGED <<phase, client, entry, inv, body, calls, input, passed,
                 upstream>>

\* lines 49-52
Handler_Succeed(p) ==
  /\ pc[p] = "HandlerCheck"
  /\ inv[Frame(p)].err = NoErr
  /\ LET jsonString == MarshalNearby(inv[Frame(p)].val)
     IN output' = [output EXCEPT ![p] =
                     [returned |-> TRUE, StatusCode |-> 200,
                      Body |-> jsonString, val |-> NoVal, err |-> NoErr]]
  /\ pc' = [pc EXCEPT ![p] = "Succeeded"]
  /\ steps' = [steps EXCEPT ![p] = Append(@, "Succeeded")]
  /\ UNCHANGED <<phase, client, entry, inv, body, calls, input, passed,
                 upstream>>

(***************************************************************************)
(* A caller of package geomap invoking one of the exported operations      *)
(***************************************************************************)
Lib_Call(p, fn, params) ==
  /\ phase = "serving"
  /\ pc[p] = "idle"
  /\ entry' = [entry EXCEPT ![p] = fn]
  /\ inv' = [inv EXCEPT ![Frame(p)] = [ZeroFrame EXCEPT !.params = params]]
  /\ passed' = [passed EXCEPT ![p] = params]
  /\ pc' = [pc EXCEPT ![p] = "NewRequest"]
  /\ UNCHANGED <<phase, client, body, calls, steps, input, upstream, output>>

(***************************************************************************)
(* net/http and net/url pieces the operations use                          *)
(***************************************************************************)
ValidMethods == {"GET", "HEAD", "POST", "PUT", "PATCH", "DELETE", "OPTIONS"}
ParsableURLs == {GeocodeURL, FindPlaceURL, NearbyURL}

\* http.NewRequest(method, url, nil): the error it returns
NewRequestErr(method, url) ==
  IF method \in ValidMethods /\ url \in ParsableURLs THEN NoErr
  ELSE ErrNewRequest

\* url.Values.Add
ValuesAdd(q, k, v) ==
  [x \in DOMAIN q \cup {k} |->
     IF x = k THEN (IF k \in DOMAIN q THEN Append(q[k], v) ELSE <<v>>)
     ELSE q[x]]

RECURSIVE AddAll(_, _, _)
\* for key, val := range params { q.Add(key, val) }
AddAll(q, params, keys) ==
  IF keys = {} THEN q
  ELSE LET k == CHOOSE x \in keys : TRUE
       IN AddAll(ValuesAdd(q, k, params[k]), params, keys \ {k})

\* url.Values.Encode, as the set of key=value pairs of the query string
Encode(q) == UNION {{<<k, q[k][i]>> : i \in 1..Len(q[k])} : k \in DOMAIN q}

(***************************************************************************)
(* The return statement of an outbound operation: the results are handed   *)
(* to the caller after the deferred resp.Body.Close(), if one has been     *)
(* registered, has run.                                                    *)
(***************************************************************************)
OpReturn(p, v, e) ==
  /\ inv' = [inv EXCEPT ![Frame(p)].val = v, ![Frame(p)].err = e]
  /\ body' = [body EXCEPT ![p] = IF inv[Frame(p)].deferred THEN "closed" ELSE @]
  /\ pc' = [pc EXCEPT ![p] = IF entry[p] = "Handler" THEN "HandlerCheck"
                             ELSE "Returned"]
  /\ output' = IF entry[p] = "Handler" THEN output
               ELSE [output EXCEPT ![p] =
                       [returned |-> TRUE, StatusCode |-> 0, Body |-> <<>>,
                        val |-> v, err |-> e]]

(***************************************************************************)
(* GetGeocode (geomap)                                                           *)
(***************************************************************************)
\* http.NewRequest("GET", reqURL, nil)
GetGeocode_NewRequest(p) ==
  /\ pc[p] = "NewRequest" /\ Fn(p) = "GetGeocode"
  /\ steps' = [steps EXCEPT ![p] = Append(@, "NewRequest")]
  /\ LET reqURL == GeocodeURL
         err == NewRequestErr("GET", reqURL)
     IN IF err # NoErr
        THEN OpReturn(p, GoogleGeocodeResponse, err)
        ELSE /\ inv' = [inv EXCEPT ![Frame(p)].req =
                          [method |-> "GET", url |-> reqURL,
                           query |-> EmptyMap, RawQuery |-> {}]]
             /\ pc' = [pc EXCEPT ![p] = "AddQuery"]
             /\ UNCHANGED <<body, output>>
  /\ UNCHANGED <<phase, client, entry, calls, input, passed, upstream>>

\* q := req.URL.Query(); q.Add for every entry; req.URL.RawQuery = q.Encode()
GetGeocode_AddQuery(p) ==
  /\ pc[p] = "AddQuery" /\ Fn(p) = "GetGeocode"
  /\ LET params == inv[Frame(p)].params
         q == AddAll(inv[Frame(p)].req.query, params, DOMAIN params)
     IN inv' = [inv EXCEPT ![Frame(p)].req.query = q,
                           ![Frame(p)].req.RawQuery = Encode(q)]
  /\ pc' = [pc EXCEPT ![p] = "Do"]
  /\ steps' = [steps EXCEPT ![p] = Append(@, "AddQuery")]
  /\ UNCHANGED <<phase, client, entry, body, calls, input, passed, upstream,
                 output>>

\* resp, err := client.Do(req)
GetGeocode_Do(p, outcome) ==
  /\ pc[p] = "Do" /\ Fn(p) = "GetGeocode"
  /\ client # NilClient
  /\ calls' = [calls EXCEPT ![p] = @ + 1]
  /\ upstream' = [upstream EXCEPT ![p] = outcome]
  /\ steps' = [steps EXCEPT ![p] = Append(@, "Do")]
  /\ IF outcome.err # NoErr
     THEN OpReturn(p, GoogleGeocodeResponse, outcome.err)
     ELSE /\ inv' = [inv EXCEPT ![Frame(p)].resp =
                       [status |-> outcome.status, body |-> outcome.body,
                        readFails |-> outcome.readFails]]
          /\ body' = [body EXCEPT ![p] = "open"]
          /\ pc' = [pc EXCEPT ![p] = "CheckStatus"]
          /\ UNCHANGED output
  /\ UNCHANGED <<phase, client, entry, input, passed>>

\* if resp.StatusCode != http.StatusOK { return ..., errors.New("Status not OK") }
\* defer resp.Body.Close()
GetGeocode_CheckStatus(p) ==
  /\ pc[p] = "CheckStatus" /\ Fn(p) = "GetGeocode"
  /\ steps' = [steps EXCEPT ![p] = Append(@, "CheckStatus")]
  /\ IF inv[Frame(p)].resp.status # StatusOK
     THEN OpReturn(p, GoogleGeocodeResponse, ErrStatusNotOK)
     ELSE /\ inv' = [inv EXCEPT ![Frame(p)].deferred = TRUE]
          /\ pc' = [pc EXCEPT ![p] = "ReadAll"]
          /\ UNCHANGED <<body, output>>
  /\ UNCHANGED <<phase, client, entry, calls, input, passed, upstream>>

\* contents, err := ioutil.ReadAll(resp.Body)
GetGeocode_ReadAll(p) ==
  /\ pc[p] = "ReadAll" /\ Fn(p) = "GetGeocode"
  /\ steps' = [steps EXCEPT ![p] = Append(@, "ReadAll")]
  /\ IF inv[Frame(p)].resp.readFails
     THEN OpReturn(p, GoogleGeocodeResponse, ErrBodyRead)
     ELSE /\ inv' = [inv EXCEPT ![Frame(p)].contents = inv[Frame(p)].resp.body]
          /\ pc' = [pc EXCEPT ![p] = "Unmarshal"]
          /\ UNCHANGED <<body, output>>
  /\ UNCHANGED <<phase, client, entry, calls, input, passed, upstream>>

\* err = json.Unmarshal(contents, &...); return
GetGeocode_Unmarshal(p) ==
  /\ pc[p] = "Unmarshal" /\ Fn(p) = "GetGeocode"
  /\ steps' = [steps EXCEPT ![p] = Append(@, "Unmarshal")]
  /\ LET u == UnmarshalGeocode(Payload(inv[Frame(p)].contents))
     IN OpReturn(p, u.val, u.err)
  /\ UNCHANGED <<phase, client, entry, calls, input, passed, upstream>>

(***************************************************************************)
(* FindPlace (geomap)                                                           *)
(***************************************************************************)
\* http.NewRequest("GET", reqURL, nil)
FindPlace_NewRequest(p) ==
  /\ pc[p] = "NewRequest" /\ Fn(p) = "FindPlace"
  /\ steps' = [steps EXCEPT ![p] = Append(@, "NewRequest")]
  /\ LET reqURL == FindPlaceURL
         err == NewRequestErr("GET", reqURL)
     IN IF err # NoErr
        THEN OpReturn(p, GooglePlaceSearchResponse, err)
        ELSE /\ inv' = [inv EXCEPT ![Frame(p)].req =
                          [method |-> "GET", url |-> reqURL,
                           query |-> EmptyMap, RawQuery |-> {}]]
             /\ pc' = [pc EXCEPT ![p] = "AddQuery"]
             /\ UNCHANGED <<body, output>>
  /\ UNCHANGED <<phase, client, entry, calls, input, passed, upstream>>

\* q := req.URL.Query(); q.Add for every entry; req.URL.RawQuery = q.Encode()
FindPlace_AddQuery(p) ==
  /\ pc[p] = "AddQuery" /\ Fn(p) = "FindPlace"
  /\ LET params == inv[Frame(p)].params
         q == AddAll(inv[Frame(p)].req.query, params, DOMAIN params)
     IN inv' = [inv EXCEPT ![Frame(p)].req.query = q,
                           ![Frame(p)].req.RawQuery = Encode(q)]
  /\ pc' = [pc EXCEPT ![p] = "Do"]
  /\ steps' = [steps EXCEPT ![p] = Append(@, "AddQuery")]
  /\ UNCHANGED <<phase, client, entry, body, calls, input, passed, upstream,
                 output>>

\* resp, err := client.Do(req)
FindPlace_Do(p, outcome) ==
  /\ pc[p] = "Do" /\ Fn(p) = "FindPlace"
  /\ client # NilClient
  /\ calls' = [calls EXCEPT ![p] = @ + 1]
  /\ upstream' = [upstream EXCEPT ![p] = outcome]
  /\ steps' = [steps EXCEPT ![p] = Append(@, "Do")]
  /\ IF outcome.err # NoErr
     THEN OpReturn(p, GooglePlaceSearchResponse, outcome.err)
     ELSE /\ inv' = [inv EXCEPT ![Frame(p)].resp =
                       [status |-> outcome.status, body |-> outcome.body,
                        readFails |-> outcome.readFails]]
          /\ body' = [body EXCEPT ![p] = "open"]
          /\ pc' = [pc EXCEPT ![p] = "CheckStatus"]
          /\ UNCHANGED output
  /\ UNCHANGED <<phase, client, entry, input, passed>>

\* variant: the status code is not looked at
FindPlace_CheckStatus_Skipped(p) ==
  /\ pc[p] = "CheckStatus" /\ Fn(p) = "FindPlace"
  /\ steps' = [steps EXCEPT ![p] = Append(@, "CheckStatus")]
  /\ inv' = [inv EXCEPT ![Frame(p)].deferred = TRUE]
  /\ pc' = [pc EXCEPT ![p] = "ReadAll"]
  /\ UNCHANGED <<body, output>>
  /\ UNCHANGED <<phase, client, entry, calls, input, passed, upstream>>

\* if resp.StatusCode != http.StatusOK { return ..., errors.New("Status not OK") }
\* defer resp.Body.Close()
FindPlace_CheckStatus(p) ==
  /\ pc[p] = "CheckStatus" /\ Fn(p) = "FindPlace"
  /\ steps' = [steps EXCEPT ![p] = Append(@, "CheckStatus")]
  /\ IF inv[Frame(p)].resp.status # StatusOK
     THEN OpReturn(p, GooglePlaceSearchResponse, ErrStatusNotOK)
     ELSE /\ inv' = [inv EXCEPT ![Frame(p)].deferred = TRUE]
          /\ pc' = [pc EXCEPT ![p] = "ReadAll"]
          /\ UNCHANGED <<body, output>>
  /\ UNCHANGED <<phase, client, entry, calls, input, passed, upstream>>

\* contents, err := ioutil.ReadAll(resp.Body)
FindPlace_ReadAll(p) ==
  /\ pc[p] = "ReadAll" /\ Fn(p) = "FindPlace"
  /\ steps' = [steps EXCEPT ![p] = Append(@, "ReadAll")]
  /\ IF inv[Frame(p)].resp.readFails
     THEN OpReturn(p, GooglePlaceSearchResponse, ErrBodyRead)
     ELSE /\ inv' = [inv EXCEPT ![Frame(p)].contents = inv[Frame(p)].resp.body]
          /\ pc' = [pc EXCEPT ![p] = "Unmarshal"]
          /\ UNCHANGED <<body, output>>
  /\ UNCHANGED <<phase, client, entry, calls, input, passed, upstream>>

\* err = json.Unmarshal(contents, &...); return
FindPlace_Unmarshal(p) ==
  /\ pc[p] = "Unmarshal" /\ Fn(p) = "FindPlace"
  /\ steps' = [steps EXCEPT ![p] = Append(@, "Unmarshal")]
  /\ LET u == UnmarshalPlaceSearch(Payload(inv[Frame(p)].contents))
     IN OpReturn(p, u.val, u.err)
  /\ UNCHANGED <<phase, client, entry, calls, input, passed, upstream>>

(***************************************************************************)
(* PlaceNearby (geomap)                                                           *)
(***************************************************************************)
\* http.NewRequest("GET", reqURL, nil)
PlaceNearby_NewRequest(p) ==
  /\ pc[p] = "NewRequest" /\ Fn(p) = "PlaceNearby"
  /\ steps' = [steps EXCEPT ![p] = Append(@, "NewRequest")]
  /\ LET reqURL == NearbyURL
         err == NewRequestErr("GET", reqURL)
     IN IF err # NoErr
        THEN OpReturn(p, GoogleNearbySearchResponse, err)
        ELSE /\ inv' = [inv EXCEPT ![Frame(p)].req =
                          [method |-> "GET", url |-> reqURL,
                           query |-> EmptyMap, RawQuery |-> {}]]
             /\ pc' = [pc EXCEPT ![p] = "AddQuery"]
             /\ UNCHANGED <<body, output>>
  /\ UNCHANGED <<phase, client, entry, calls, input, passed, upstream>>

\* q := req.URL.Query(); q.Add for every entry; req.URL.RawQuery = q.Encode()
PlaceNearby_AddQuery(p) ==
  /\ pc[p] = "AddQuery" /\ Fn(p) = "PlaceNearby"
  /\ LET params == inv[Frame(p)].params
         q == AddAll(inv[Frame(p)].req.query, params, DOMAIN params)
     IN inv' = [inv EXCEPT ![Frame(p)].req.query = q,
                           ![Frame(p)].req.RawQuery = Encode(q)]
  /\ pc' = [pc EXCEPT ![p] = "Do"]
  /\ steps' = [steps EXCEPT ![p] = Append(@, "AddQuery")]
  /\ UNCHANGED <<phase, client, entry, body, calls, input, passed, upstream,
                 output>>

\* variant: a transport error is retried once
PlaceNearby_Do_Retry(p, outcome) ==
  /\ pc[p] = "Do" /\ Fn(p) = "PlaceNearby"
  /\ client # NilClient
  /\ calls' = [calls EXCEPT ![p] = @ + 1]
  /\ upstream' = [upstream EXCEPT ![p] = outcome]
  /\ steps' = [steps EXCEPT ![p] = Append(@, "Do")]
  /\ IF outcome.err # NoErr /\ calls[p] = 0
     THEN UNCHANGED <<inv, body, pc, output>>
     ELSE IF outcome.err # NoErr
     THEN OpReturn(p, GoogleNearbySearchResponse, outcome.err)
     ELSE /\ inv' = [inv EXCEPT ![Frame(p)].resp =
                       [status |-> outcome.status, body |-> outcome.body,
                        readFails |-> outcome.readFails]]
          /\ body' = [body EXCEPT ![p] = "open"]
          /\ pc' = [pc EXCEPT ![p] = "CheckStatus"]
          /\ UNCHANGED output
  /\ UNCHANGED <<phase, client, entry, input, passed>>

\* resp, err := client.Do(req)
PlaceNearby_Do(p, outcome) ==
  /\ pc[p] = "Do" /\ Fn(p) = "PlaceNearby"
  /\ client # NilClient
  /\ calls' = [calls EXCEPT ![p] = @ + 1]
  /\ upstream' = [upstream EXCEPT ![p] = outcome]
  /\ steps' = [steps EXCEPT ![p] = Append(@, "Do")]
  /\ IF outcome.err # NoErr
     THEN OpReturn(p, GoogleNearbySearchResponse, outcome.err)
     ELSE /\ inv' = [inv EXCEPT ![Frame(p)].resp =
                       [status |-> outcome.status, body |-> outcome.body,
                        readFails |-> outcome.readFails]]
          /\ body' = [body EXCEPT ![p] = "open"]
          /\ pc' = [pc EXCEPT ![p] = "CheckStatus"]
          /\ UNCHANGED output
  /\ UNCHANGED <<phase, client, entry, input, passed>>

\* variant: only the server errors are taken for a failure
PlaceNearby_CheckStatus_ServerErrors(p) ==
  /\ pc[p] = "CheckStatus" /\ Fn(p) = "PlaceNearby"
  /\ steps' = [steps EXCEPT ![p] = Append(@, "CheckStatus")]
  /\ IF inv[Frame(p)].resp.status >= 500
     THEN OpReturn(p, GoogleNearbySearchResponse, ErrStatusNotOK)
     ELSE /\ inv' = [inv EXCEPT ![Frame(p)].deferred = TRUE]
          /\ pc' = [pc EXCEPT ![p] = "ReadAll"]
          /\ UNCHANGED <<body, output>>
  /\ UNCHANGED <<phase, client, entry, calls, input, passed, upstream>>

\* if resp.StatusCode != http.StatusOK { return ..., errors.New("Status not OK") }
\* defer resp.Body.Close()
PlaceNearby_CheckStatus(p) ==
  /\ pc[p] = "CheckStatus" /\ Fn(p) = "PlaceNearby"
  /\ steps' = [steps EXCEPT ![p] = Append(@, "CheckStatus")]
  /\ IF inv[Frame(p)].resp.status # StatusOK
     THEN OpReturn(p, GoogleNearbySearchResponse, ErrStatusNotOK)
     ELSE /\ inv' = [inv EXCEPT ![Frame(p)].deferred = TRUE]
          /\ pc' = [pc EXCEPT ![p] = "ReadAll"]
          /\ UNCHANGED <<body, output>>
  /\ UNCHANGED <<phase, client, entry, calls, input, passed, upstream>>

\* variant: the error of the read is dropped and what was read is decoded
PlaceNearby_ReadAll_IgnoreErr(p) ==
  /\ pc[p] = "ReadAll" /\ Fn(p) = "PlaceNearby"
  /\ steps' = [steps EXCEPT ![p] = Append(@, "ReadAll")]
  /\ inv' = [inv EXCEPT ![Frame(p)].contents =
               IF inv[Frame(p)].resp.readFails THEN "html"
               ELSE inv[Frame(p)].resp.body]
  /\ pc' = [pc EXCEPT ![p] = "Unmarshal"]
  /\ UNCHANGED <<body, output>>
  /\ UNCHANGED <<phase, client, entry, calls, input, passed, upstream>>

\* contents, err := ioutil.ReadAll(resp.Body)
PlaceNearby_ReadAll(p) ==
  /\ pc[p] = "ReadAll" /\ Fn(p) = "PlaceNearby"
  /\ steps' = [steps EXCEPT ![p] = Append(@, "ReadAll")]
  /\ IF inv[Frame(p)].resp.readFails
     THEN OpReturn(p, GoogleNearbySearchResponse, ErrBodyRead)
     ELSE /\ inv' = [inv EXCEPT ![Frame(p)].contents = inv[Frame(p)].resp.body]
          /\ pc' = [pc EXCEPT ![p] = "Unmarshal"]
          /\ UNCHANGED <<body, output>>
  /\ UNCHANGED <<phase, client, entry, calls, input, passed, upstream>>

\* err = json.Unmarshal(contents, &...); return
PlaceNearby_Unmarshal(p) ==
  /\ pc[p] = "Unmarshal" /\ Fn(p) = "PlaceNearby"
  /\ steps' = [steps EXCEPT ![p] = Append(@, "Unmarshal")]
  /\ LET u == UnmarshalNearby(Payload(inv[Frame(p)].contents))
     IN OpReturn(p, u.val, u.err)
  /\ UNCHANGED <<phase, client, entry, calls, input, passed, upstream>>

(***************************************************************************)
(* Specifications                                                          *)
(***************************************************************************)
\* the mappings a direct caller of the operations passes
LibParams ==
  {[address |-> "Jakarta", key |-> APIKey],
   [location |-> "-6.2,106.8", radius |-> "500", key |-> APIKey],
   [location |-> "-6.2,106.8", radius |-> "500", key |-> APIKey,
    name |-> "coffee"]}

InitProcs(P) ==
  /\ phase = "init"
  /\ client = NilClient
  /\ pc = [p \in P |-> "idle"]
  /\ entry = [p \in P |-> "none"]
  /\ inv = [p \in P |-> ZeroFrame]
  /\ body = [p \in P |-> "none"]
  /\ calls = [p \in P |-> 0]
  /\ steps = [p \in P |-> <<>>]
  /\ input = [p \in P |-> EmptyMap]
  /\ passed = [p \in P |-> EmptyMap]
  /\ upstream = [p \in P |-> NoOutcome]
  /\ output = [p \in P |-> NoOutput]

Step(p) ==
  \/ Handler_BuildParams(p)
  \/ Handler_Dispatch(p)
  \/ Handler_Fail(p)
  \/ Handler_Succeed(p)
  \/ GetGeocode_NewRequest(p)
  \/ GetGeocode_AddQuery(p)
  \/ GetGeocode_CheckStatus(p)
  \/ GetGeocode_ReadAll(p)
  \/ GetGeocode_Unmarshal(p)
  \/ FindPlace_NewRequest(p)
  \/ FindPlace_AddQuery(p)
  \/ FindPlace_CheckStatus(p)
  \/ FindPlace_ReadAll(p)
  \/ FindPlace_Unmarshal(p)
  \/ PlaceNearby_NewRequest(p)
  \/ PlaceNearby_AddQuery(p)
  \/ PlaceNearby_CheckStatus(p)
  \/ PlaceNearby_ReadAll(p)
  \/ PlaceNearby_Unmarshal(p)

\* one invocation at a time, over all inputs and upstream outcomes
SeqProcs == {1}

Init == InitProcs(SeqProcs)

Next ==
  \/ init
  \/ \E p \in SeqProcs :
       \/ Step(p)
       \/ \E request \in Requests : Handler_Receive(p, request)
       \/ \E fn \in {"GetGeocode", "FindPlace", "PlaceNearby"}, params \in LibParams :
            Lib_Call(p, fn, params)
       \/ \E outcome \in Outcomes :
            \/ GetGeocode_Do(p, outcome)
            \/ FindPlace_Do(p, outcome)
            \/ PlaceNearby_Do(p, outcome)

Spec == Init /\ [][Next]_vars

\* several invocations interleaved by the host runtime, over a few inputs
ConcProcs == 1..NumInv

ConcRequests ==
  {[location |-> "-6.2,106.8", radius |-> "500"],
   [location |-> "-6.2,106.8", radius |-> "500", name |-> "coffee"]}

ConcParams == {[location |-> "-6.2,106.8", radius |-> "500", key |-> APIKey]}

ConcOutcomes ==
  {TransportFailure,
   Answer(500, "html", FALSE),
   Answer(200, "placeOK", FALSE),
   Answer(200, "nearbyOK", TRUE)}

InitConc == InitProcs(ConcProcs)

NextConc ==
  \/ init
  \/ \E p \in ConcProcs :
       \/ Step(p)
       \/ \E request \in ConcRequests : Handler_Receive(p, request)
       \/ \E fn \in {"GetGeocode", "FindPlace", "PlaceNearby"}, params \in ConcParams :
            Lib_Call(p, fn, params)
       \/ \E outcome \in ConcOutcomes :
            \/ GetGeocode_Do(p, outcome)
            \/ FindPlace_Do(p, outcome)
            \/ PlaceNearby_Do(p, outcome)

SpecConc == InitConc /\ [][NextConc]_vars

(***************************************************************************)
(* Vocabulary of the properties                                            *)
(***************************************************************************)
\* the outbound operation p called has returned to its caller
OpReturned(p) == pc[p] \in Terminal \cup {"HandlerCheck"}

\* Handler has returned to the runtime
HandlerReturned(p) == entry[p] = "Handler" /\ pc[p] \in {"Succeeded", "Failed"}

\* the transport handed p a response
GotResponse(p) == calls[p] > 0 /\ upstream[p].err = NoErr

\* the error with which the given operation's decoding of a body ends
DecodeErr(fn, b) ==
  CASE fn = "GetGeocode" -> UnmarshalGeocode(Payload(b)).err
    [] fn = "FindPlace" -> UnmarshalPlaceSearch(Payload(b)).err
    [] fn = "PlaceNearby" -> UnmarshalNearby(Payload(b)).err

\* the kind of failure an upstream outcome means for an operation, or "none"
FailureKind(fn, up) ==
  IF up.err # NoErr THEN "transport"
  ELSE IF up.status # 200 THEN "status"
  ELSE IF up.readFails THEN "read"
  ELSE IF DecodeErr(fn, up.body) # NoErr THEN "decode"
  ELSE "none"

\* the kind of an error value an operation returned
ErrKind(e) ==
  CASE e = NoErr -> "none"
    [] e = ErrNewRequest -> "request"
    [] e = ErrTransport -> "transport"
    [] e = ErrStatusNotOK -> "status"
    [] e = ErrBodyRead -> "read"
    [] e \in {ErrSyntax, ErrType} -> "decode"
    [] OTHER -> "other"

\* the value of the trailing "status" member of a marshalled response
JSONStatusOf(text) == text[Len(text) - 2]

IsPrefix(a, b) == Len(a) <= Len(b) /\ SubSeq(b, 1, Len(a)) = a

OpOrder == <<"NewRequest", "AddQuery", "Do", "CheckStatus", "ReadAll", "Unmarshal">>
HandlerOrder == <<"Received", "BuildParams", "Dispatched">> \o OpOrder

IsOpStep(x) == x \in {OpOrder[i] : i \in 1..Len(OpOrder)}
OpSteps(p) == SelectSeq(steps[p], IsOpStep)

\* the step at which an operation ends, by the kind of its failure
LastStepOf(kind) ==
  CASE kind = "transport" -> "Do"
    [] kind = "status" -> "CheckStatus"
    [] kind = "read" -> "ReadAll"
    [] OTHER -> "Unmarshal"

(***************************************************************************)
(* C1: whenever the nearby-search call of a handler invocation fails, of   *)
(* whatever kind the failure is, Handler returns status code 400, the body *)
(* "Error" and the very error PlaceNearby returned, which is not nil.      *)
(***************************************************************************)
C1_FailureEnvelope ==
  \A p \in Procs :
    (HandlerReturned(p) /\
       (inv[p].err # NoErr \/ FailureKind("PlaceNearby", upstream[p]) # "none"))
    => /\ output[p].StatusCode = 400
       /\ output[p].Body = <<"Error">>
       /\ output[p].err # NoErr
       /\ output[p].err = inv[p].err
       /\ ErrKind(output[p].err) = FailureKind("PlaceNearby", upstream[p])

\* a handler invocation has failed on an HTTP 200 answer that is not JSON
C1_Witness ==
  \E p \in Procs :
    /\ HandlerReturned(p) /\ pc[p] = "Failed"
    /\ upstream[p] = Answer(200, "html", FALSE)

(***************************************************************************)
(* C2: when the upstream answers 200 with a body that decodes into the     *)
(* nearby-search schema, Handler returns 200, a nil error and the JSON     *)
(* serialization of the decoded structure, in which the upstream's status  *)
(* string reappears; 200 is returned in no other case.                     *)
(***************************************************************************)
C2_SuccessEnvelope ==
  \A p \in Procs :
    HandlerReturned(p) =>
      LET up == upstream[p]
          good == FailureKind("PlaceNearby", up) = "none"
          doc == Payload(up.body)
      IN /\ good =>
              /\ output[p].StatusCode = 200
              /\ output[p].err = NoErr
              /\ output[p].Body = MarshalNearby(UnmarshalNearby(doc).val)
              /\ (doc.t = "obj" /\ "status" \in DOMAIN doc.v)
                   => JSONStatusOf(output[p].Body) = doc.v["status"].v
         /\ output[p].StatusCode = 200 => good

\* a handler invocation has succeeded on a payload whose status is "OK"
C2_Witness ==
  \E p \in Procs :
    /\ HandlerReturned(p) /\ pc[p] = "Succeeded"
    /\ upstream[p] = Answer(200, "nearbyOK", FALSE)
    /\ JSONStatusOf(output[p].Body) = "OK"

(***************************************************************************)
(* C3: the mapping Handler passes to PlaceNearby has the keys location,    *)
(* radius and key, location and radius carrying the inbound values, and    *)
(* has the key name exactly when the inbound name is present and not       *)
(* empty, then with the inbound value; it has no other key.                *)
(***************************************************************************)
C3_ParameterMapping ==
  \A p \in Procs :
    (entry[p] = "Handler" /\ pc[p] \notin {"idle", "Received", "Call"}) =>
      LET m == passed[p]
          r == input[p]
      IN /\ {"location", "radius", "key"} \subseteq DOMAIN m
         /\ DOMAIN m \subseteq {"location", "radius", "key", "name"}
         /\ m["location"] = (IF "location" \in DOMAIN r THEN r["location"] ELSE "")
         /\ m["radius"] = (IF "radius" \in DOMAIN r THEN r["radius"] ELSE "")
         /\ m["key"] = APIKey
         /\ "name" \in DOMAIN m <=> ("name" \in DOMAIN r /\ r["name"] # "")
         /\ "name" \in DOMAIN m => m["name"] = r["name"]

\* a request with name="" has been dispatched without a name key
C3_Witness ==
  \E p \in Procs :
    /\ entry[p] = "Handler" /\ pc[p] = "NewRequest"
    /\ "name" \in DOMAIN input[p] /\ input[p]["name"] = ""
    /\ "location" \in DOMAIN input[p]
    /\ "name" \notin DOMAIN passed[p]

(***************************************************************************)
(* C4: in each outbound operation a response whose status is not 200 ends  *)
(* the operation with the error "Status not OK" whatever the payload: the  *)
(* body is neither read nor decoded, the error carries no detail, and      *)
(* Handler turns it into 400 with body "Error".                            *)
(***************************************************************************)
C4_StatusNotOK ==
  \A p \in Procs :
    (OpReturned(p) /\ GotResponse(p) /\ upstream[p].status # 200) =>
      /\ inv[p].err = ErrStatusNotOK
      /\ inv[p].contents = ""
      /\ \A i \in 1..Len(steps[p]) : steps[p][i] \notin {"ReadAll", "Unmarshal"}
      /\ entry[p] # "Handler" => output[p].err = ErrStatusNotOK
      /\ HandlerReturned(p) =>
           /\ output[p].StatusCode = 400
           /\ output[p].Body = <<"Error">>

\* a handler invocation has failed on an HTTP 500 answer
C4_Witness ==
  \E p \in Procs :
    /\ HandlerReturned(p)
    /\ GotResponse(p) /\ upstream[p].status = 500
    /\ upstream[p].body = "nearbyOK"

(***************************************************************************)
(* C5: whenever the transport has returned a response, its body is closed  *)
(* by the time the operation returns, on every path.                       *)
(***************************************************************************)
C5_BodyClosedOnReturn ==
  \A p \in Procs :
    (OpReturned(p) /\ GotResponse(p)) => body[p] = "closed"

(***************************************************************************)
(* C6: a handler invocation performs one outbound call and no more: no     *)
(* failure is retried and no second call is issued before it returns.      *)
(***************************************************************************)
C6_OneOutboundCall ==
  \A p \in Procs :
    /\ calls[p] <= 1
    /\ Len(SelectSeq(steps[p], LAMBDA x : x = "Dispatched")) <= 1
    /\ HandlerReturned(p) =>
         /\ calls[p] = 1
         /\ Len(SelectSeq(steps[p], LAMBDA x : x = "Dispatched")) = 1
         /\ Len(SelectSeq(steps[p], LAMBDA x : x = "Do")) = 1

\* a handler invocation has returned after a transport error
C6_Witness ==
  \E p \in Procs :
    /\ HandlerReturned(p)
    /\ upstream[p] = TransportFailure
    /\ calls[p] = 1

(***************************************************************************)
(* C7: every envelope Handler returns has a body that is not empty and is  *)
(* of one of two shapes: 200 with the serialized result and a nil error,   *)
(* or 400 with "Error" and an error that is not nil.                       *)
(***************************************************************************)
C7_EnvelopeShapes ==
  \A p \in Procs :
    (entry[p] = "Handler" /\ output[p].returned) =>
      /\ Len(output[p].Body) > 0
      /\ \/ /\ output[p].StatusCode = 200
            /\ output[p].err = NoErr
            /\ output[p].Body = MarshalNearby(inv[p].val)
            /\ output[p].Body[1] = "{"
            /\ output[p].Body[Len(output[p].Body)] = "}"
         \/ /\ output[p].StatusCode = 400
            /\ output[p].err # NoErr
            /\ output[p].Body = <<"Error">>

\* an envelope has been returned for an upstream body that is just null
C7_Witness ==
  \E p \in Procs :
    /\ entry[p] = "Handler" /\ output[p].returned
    /\ upstream[p] = Answer(200, "nullDoc", FALSE)
    /\ output[p].StatusCode = 200

(***************************************************************************)
(* C8: a handler invocation goes Received, Dispatched, then Succeeded or   *)
(* Failed: the call is dispatched after the mapping is built, a terminal   *)
(* state follows the dispatch, only one of the two is reached and it is    *)
(* never left; inside the operation the steps are build request, attach    *)
(* parameters, execute, check status, read body, decode, in this order,    *)
(* and the first step that fails ends the invocation.                      *)
(***************************************************************************)
C8_StepOrder(p) ==
  LET s == steps[p]
      n == Len(s)
      kind == FailureKind("PlaceNearby", upstream[p])
  IN IF pc[p] \in {"Succeeded", "Failed"}
     THEN /\ n >= 5
          /\ IsPrefix(SubSeq(s, 1, n - 1), HandlerOrder)
          /\ s[n] = pc[p]
          /\ s[n - 1] = LastStepOf(kind)
          /\ pc[p] = "Succeeded" <=> kind = "none"
     ELSE IF entry[p] = "Handler"
     THEN /\ IsPrefix(s, HandlerOrder)
          /\ pc[p] = "HandlerCheck" => s[n] = LastStepOf(kind)
     ELSE /\ IsPrefix(s, OpOrder)
          /\ pc[p] = "Returned" => s[n] = LastStepOf(FailureKind(Fn(p), upstream[p]))

C8_TerminalStays(p) ==
  pc[p] \in Terminal =>
    /\ pc'[p] = pc[p]
    /\ steps'[p] = steps[p]
    /\ output'[p] = output[p]
    /\ calls'[p] = calls[p]

C8_StateMachine ==
  /\ [](\A p \in Procs : C8_StepOrder(p))
  /\ [][\A p \in Procs : C8_TerminalStays(p)]_vars

\* a handler invocation has failed at the body read, after five steps of
\* the operation
C8_Witness ==
  \E p \in Procs :
    /\ pc[p] = "Failed"
    /\ upstream[p] = Answer(200, "nearbyOK", TRUE)
    /\ steps[p] = <<"Received", "BuildParams", "Dispatched", "NewRequest",
                    "AddQuery", "Do", "CheckStatus", "ReadAll", "Failed">>

(***************************************************************************)
(* C9: GetGeocode, FindPlace and PlaceNearby differ in URL and schema      *)
(* only: two calls given the same mapping and the same transport outcomes  *)
(* (request error, status code, body read, decoding) take the same steps   *)
(* in the same order and end in the same class of outcome.                 *)
(***************************************************************************)
C9_SameInputs(p, q) ==
  /\ OpReturned(p) /\ OpReturned(q)
  /\ calls[p] > 0 /\ calls[q] > 0
  /\ passed[p] = passed[q]
  /\ upstream[p] = upstream[q]
  /\ upstream[p].err = NoErr =>
       ErrKind(DecodeErr(Fn(p), upstream[p].body)) =
         ErrKind(DecodeErr(Fn(q), upstream[q].body))

C9_SameOperation ==
  \A p, q \in Procs :
    C9_SameInputs(p, q) =>
      /\ OpSteps(p) = OpSteps(q)
      /\ ErrKind(inv[p].err) = ErrKind(inv[q].err)
      /\ (inv[p].req.RawQuery = inv[q].req.RawQuery)
      /\ (body[p] = body[q])

\* GetGeocode and FindPlace have both returned from an HTTP 500 answer to
\* the same mapping
C9_Witness ==
  \E p, q \in Procs :
    /\ entry[p] = "GetGeocode" /\ entry[q] = "FindPlace"
    /\ C9_SameInputs(p, q)
    /\ upstream[p] = Answer(500, "html", FALSE)
    /\ OpSteps(p) = <<"NewRequest", "AddQuery", "Do", "CheckStatus">>

(***************************************************************************)
(* C10: the shared transport is assigned once, by the initializer, and no  *)
(* invocation reassigns it; interleaved invocations share nothing else:    *)
(* what each passes on and returns is determined by its own request and    *)
(* its own upstream outcome, however the steps interleave.                 *)
(***************************************************************************)
ExpectedEnvelope(up) ==
  IF FailureKind("PlaceNearby", up) # "none"
  THEN [StatusCode |-> 400, Body |-> <<"Error">>]
  ELSE [StatusCode |-> 200,
        Body |-> MarshalNearby(UnmarshalNearby(Payload(up.body)).val)]

C10_OwnData(p) ==
  /\ (entry[p] = "Handler" /\ pc[p] \notin {"idle", "Received", "Call"}) =>
       passed[p] = GeoParams(input[p])
  /\ HandlerReturned(p) =>
       /\ output[p].StatusCode = ExpectedEnvelope(upstream[p]).StatusCode
       /\ output[p].Body = ExpectedEnvelope(upstream[p]).Body
  /\ (entry[p] \notin {"Handler", "none"} /\ pc[p] = "Returned") =>
       ErrKind(output[p].err) = FailureKind(Fn(p), upstream[p])

C10_TransportStable ==
  /\ phase = "init" => client = NilClient
  /\ phase = "serving" => (client = HTTPClient /\ client' = client)
  /\ (\E p \in Procs : pc[p] # "idle") => client' = client

C10_Isolation ==
  /\ [](\A p \in Procs : C10_OwnData(p))
  /\ [][C10_TransportStable]_vars

\* two handler invocations with different requests have both returned, one
\* succeeding and one failing
C10_Witness ==
  \E p, q \in Procs :
    /\ HandlerReturned(p) /\ HandlerReturned(q)
    /\ input[p] # input[q]
    /\ pc[p] = "Succeeded" /\ pc[q] = "Failed"
    /\ client = HTTPClient

====
